---- MODULE Spec2Model ----
(***************************************************************************)
(* Model of src/xml_searcher.py: the catalog loader (fetch_and_parse_xml)  *)
(* that rebuilds the process-wide CACHE from a remote XML feed, and the    *)
(* readers of that cache (get_categories, get_product, _do_search).        *)
(*                                                                         *)
(* Python strings are sequences of one-character strings, so that          *)
(* lowercasing, whitespace splitting and substring search are computed.    *)
(* Python's None is the one-element sequence None, whose element is not a  *)
(* character of the alphabet.                                              *)
(***************************************************************************)
EXTENDS Integers, Sequences, FiniteSets, TLC

\* ------------------------------------------------------------------------
\* Strings
\* ------------------------------------------------------------------------

\* Python's None (an absent attribute, an element without text, an
\* argument that was not supplied).
None == <<"None">>

\* A dict key that is absent (product.get("category_name", ...)).
Absent == <<"Absent">>

IsStr(t) == t # None /\ t # Absent

\* str.lower on one character of the alphabet.
LowerChar(c) ==
    CASE c = "A" -> "a"
      [] c = "B" -> "b"
      [] c = "T" -> "t"
      [] OTHER -> c

\* str.lower
Lower(t) == [i \in 1..Len(t) |-> LowerChar(t[i])]

\* The whitespace of str.split() and of the regular expression \s.
IsSpace(c) == c = " "

RECURSIVE SkipSpaces(_)
SkipSpaces(t) ==
    IF t = <<>> THEN <<>>
    ELSE IF IsSpace(Head(t)) THEN SkipSpaces(Tail(t)) ELSE t

RECURSIVE TakeWord(_)
TakeWord(t) ==
    IF t = <<>> \/ IsSpace(Head(t)) THEN <<>>
    ELSE <<Head(t)>> \o TakeWord(Tail(t))

\* str.split() with no separator: the maximal runs of non-whitespace.
RECURSIVE Split(_)
Split(t) ==
    LET s == SkipSpaces(t) IN
    IF s = <<>> THEN <<>>
    ELSE LET w == TakeWord(s) IN
         <<w>> \o Split(SubSeq(s, Len(w) + 1, Len(s)))

\* Python's `sub in s` for strings.
Contains(sub, s) ==
    \E i \in 0..(Len(s) - Len(sub)) : SubSeq(s, i + 1, i + Len(sub)) = sub

\* " ".join(parts)
RECURSIVE Join(_)
Join(parts) ==
    IF parts = <<>> THEN <<>>
    ELSE IF Len(parts) = 1 THEN parts[1]
    ELSE parts[1] \o <<" ">> \o Join(Tail(parts))

\* Python truthiness of a str-or-None value: None and "" are falsy.
Truthy(t) == t # None /\ t # <<>>

\* ------------------------------------------------------------------------
\* clean_text
\* ------------------------------------------------------------------------

\* Index of the first ">" of t at or after position i, 0 when there is none.
RECURSIVE FirstGt(_, _)
FirstGt(t, i) ==
    IF i > Len(t) THEN 0
    ELSE IF t[i] = ">" THEN i ELSE FirstGt(t, i + 1)

\* re.sub(r'<[^>]+>', ' ', text): a "<", one or more characters other than
\* ">", and a ">" become one space.
RECURSIVE StripTags(_)
StripTags(t) ==
    IF t = <<>> THEN <<>>
    ELSE LET j == FirstGt(t, 2) IN
         IF Head(t) = "<" /\ j >= 3
         THEN <<" ">> \o StripTags(SubSeq(t, j + 1, Len(t)))
         ELSE <<Head(t)>> \o StripTags(Tail(t))

\* re.sub(r'\s+', ' ', text): every run of whitespace becomes one space.
RECURSIVE CollapseSpaces(_)
CollapseSpaces(t) ==
    IF t = <<>> THEN <<>>
    ELSE IF IsSpace(Head(t))
         THEN <<" ">> \o CollapseSpaces(SkipSpaces(t))
         ELSE <<Head(t)>> \o CollapseSpaces(Tail(t))

\* str.strip()
RECURSIVE StripRight(_)
StripRight(t) ==
    IF t = <<>> THEN <<>>
    ELSE IF IsSpace(t[Len(t)]) THEN StripRight(SubSeq(t, 1, Len(t) - 1))
    ELSE t

Strip(t) == StripRight(SkipSpaces(t))

\* clean_text.  The alphabet has no CDATA marker and no HTML entity, so the
\* CDATA removal and html.unescape leave every text of the model as it is.
clean_text(text) ==
    IF ~Truthy(text) THEN <<>>
    ELSE Strip(CollapseSpaces(StripTags(text)))

\* ------------------------------------------------------------------------
\* float()
\* ------------------------------------------------------------------------

IsDigit(c) == c \in {"0", "1", "5"}

DigitVal(c) == CASE c = "0" -> 0 [] c = "1" -> 1 [] c = "5" -> 5

RECURSIVE DecimalValue(_, _)
DecimalValue(t, acc) ==
    IF t = <<>> THEN acc
    ELSE DecimalValue(Tail(t), acc * 10 + DigitVal(Head(t)))

\* float(text) on the price texts of the model (digits and letters): a
\* non-empty run of digits is its decimal value, anything else raises
\* ValueError.
ParseFloat(text) ==
    IF text # <<>> /\ \A i \in 1..Len(text) : IsDigit(text[i])
    THEN [ok |-> TRUE, val |-> DecimalValue(text, 0)]
    ELSE [ok |-> FALSE, val |-> 0]

\* ------------------------------------------------------------------------
\* The XML feed
\* ------------------------------------------------------------------------
\* A category element is [id, parentId, text]; an offer element is
\* [available, id, name, price, url, categoryId, description, params] and a
\* param element is [name, text].  An attribute or child element that the
\* document leaves out is None; a child element without text is <<>> for
\* findtext and None for .text.

TxtTrue == <<"t", "r", "u", "e">>
TxtFalse == <<"f", "a", "l", "s", "e">>
TxtTrueCap == <<"T", "r", "u", "e">>

\* The param names _do_search looks up.  BrandKey stands for the feed's
\* brand key and UsersKey for its number-of-users key; only their equality
\* with a param name matters.
BrandKey == <<"B", "r", "a", "n", "d">>
UsersKey == <<"U", "s", "e", "r", "s">>

OfferA(avail) ==
    [available |-> avail, id |-> <<"1">>, name |-> <<"A", "b", " ", "a">>,
     price |-> <<"1", "0">>, url |-> <<"u", "1">>, categoryId |-> <<"1">>,
     description |-> <<"<", "b", ">", "b", "<", "/", "b", ">", " ", " ", "t">>,
     params |-> << [name |-> BrandKey, text |-> <<"B", "a">>],
                   [name |-> UsersKey, text |-> <<"5">>] >>]

OfferB(avail) ==
    [available |-> avail, id |-> <<"2">>, name |-> <<"b">>,
     price |-> IF avail = TxtTrue THEN <<"5">> ELSE <<"x">>,
     url |-> <<"u", "2">>, categoryId |-> <<"1">>,
     description |-> None, params |-> << >>]

OfferC ==
    [available |-> TxtTrue, id |-> <<"3">>, name |-> <<"b">>,
     price |-> <<"1", "0">>, url |-> <<"u", "3">>, categoryId |-> <<"2">>,
     description |-> <<"a">>,
     params |-> << [name |-> UsersKey, text |-> <<"1">>],
                   [name |-> UsersKey, text |-> <<"5">>] >>]

\* An available offer that has only its availability flag and a url.
OfferD ==
    [available |-> TxtTrue, id |-> <<"4">>, name |-> None,
     price |-> None, url |-> <<"u", "4">>, categoryId |-> None,
     description |-> None,
     params |-> << [name |-> None, text |-> <<"a">>],
                   [name |-> <<"X">>, text |-> None] >>]

OfferE ==
    [available |-> TxtTrueCap, id |-> <<"5">>, name |-> <<"a">>,
     price |-> <<"1">>, url |-> <<"u", "5">>, categoryId |-> <<"1">>,
     description |-> None, params |-> << >>]

\* An available offer without an id attribute.
OfferF ==
    [available |-> TxtTrue, id |-> None, name |-> <<"a">>,
     price |-> <<"1">>, url |-> <<"u", "6">>, categoryId |-> None,
     description |-> None, params |-> << >>]

\* An available offer whose price element has the text `price`.
OfferG(price) ==
    [available |-> TxtTrue, id |-> <<"7">>, name |-> <<"a">>,
     price |-> price, url |-> <<"u", "7">>, categoryId |-> <<"1">>,
     description |-> None, params |-> << >>]

Docs ==
    << \* 1: a complete catalog
       [wellformed |-> TRUE,
        categories |-> << [id |-> <<"1">>, parentId |-> None, text |-> <<"T", "b">>],
                          [id |-> <<"2">>, parentId |-> <<"1">>, text |-> <<"B">>] >>,
        offers |-> << OfferA(TxtTrue), OfferB(TxtFalse), OfferC, OfferD >>],
       \* 2: category 1 has lost its name, offer 1 its availability flag
       [wellformed |-> TRUE,
        categories |-> << [id |-> <<"1">>, parentId |-> None, text |-> <<"a">>],
                          [id |-> <<"1">>, parentId |-> None, text |-> None] >>,
        offers |-> << OfferA(None), OfferB(TxtTrue), OfferE, OfferF >>],
       \* 3: an available offer with an empty price element
       [wellformed |-> TRUE,
        categories |-> << [id |-> <<"1">>, parentId |-> None, text |-> <<"T", "b">>] >>,
        offers |-> << OfferA(TxtTrue), OfferG(<<>>), OfferC >>],
       \* 4: an available offer with a non-numeric price
       [wellformed |-> TRUE,
        categories |-> << [id |-> <<"1">>, parentId |-> None, text |-> <<"T", "b">>] >>,
        offers |-> << OfferG(<<"1", "x">>), OfferA(TxtTrue) >>],
       \* 5: not well-formed XML
       [wellformed |-> FALSE, categories |-> << >>, offers |-> << >>] >>

DocIds == 1..Len(Docs)

\* Element.get(name): the attribute's value, None when it is absent.
GetAttr(v) == v

\* Element.findtext(path, default): default when there is no such child,
\* "" when the child has no text.
FindText(child, default) == IF child = None THEN default ELSE child

\* ------------------------------------------------------------------------
\* Python dicts, as sequences of items in insertion order
\* ------------------------------------------------------------------------

HasKey(d, k) == \E i \in 1..Len(d) : d[i].key = k

Lookup(d, k) == d[CHOOSE i \in 1..Len(d) : d[i].key = k].val

\* d[k] = v: an existing key keeps its place and takes the new value.
DictSet(d, k, v) ==
    IF HasKey(d, k)
    THEN [i \in 1..Len(d) |-> IF d[i].key = k THEN [key |-> k, val |-> v] ELSE d[i]]
    ELSE Append(d, [key |-> k, val |-> v])

\* d.get(k, default)
DictGet(d, k, default) == IF HasKey(d, k) THEN Lookup(d, k) ELSE default

\* list(d.values())
Values(d) == [i \in 1..Len(d) |-> d[i].val]

\* ------------------------------------------------------------------------
\* fetch_and_parse_xml: the loop bodies
\* ------------------------------------------------------------------------

\* Lines 56-63: one iteration of the category loop.
AddCategory(cats, category) ==
    LET cat_id == GetAttr(category.id) IN
    DictSet(cats, cat_id,
            [id |-> cat_id, name |-> category.text,
             parent_id |-> GetAttr(category.parentId)])

\* Default-include: every offer but those flagged "false".
IsAvailable_notFalse(offer) == GetAttr(offer.available) # TxtFalse

\* Line 67: the offer is kept only when available is exactly "true".
IsAvailable(offer) == GetAttr(offer.available) = TxtTrue

\* Lines 81-85: params with a truthy name and a truthy value.
RECURSIVE ExtractParams(_, _)
ExtractParams(params, acc) ==
    IF params = <<>> THEN acc
    ELSE LET param == Head(params) IN
         ExtractParams(Tail(params),
             IF Truthy(param.name) /\ Truthy(param.text)
             THEN DictSet(acc, param.name, param.text)
             ELSE acc)

\* Line 73: float(offer.findtext("price", "0")).
OfferPrice(offer) == ParseFloat(FindText(offer.price, <<"0">>))

\* Lines 88-90: category_name is set only when the category id is known.
CategoryName(cat_id, cats) ==
    IF HasKey(cats, cat_id) THEN Lookup(cats, cat_id).name ELSE Absent

\* Lines 70-90: the product built from an available offer whose price
\* parses.
MakeProduct(offer, cats) ==
    [id |-> GetAttr(offer.id),
     name |-> FindText(offer.name, <<>>),
     price |-> OfferPrice(offer).val,
     url |-> FindText(offer.url, <<>>),
     category_id |-> FindText(offer.categoryId, <<>>),
     description |-> clean_text(FindText(offer.description, <<>>)),
     params |-> ExtractParams(offer.params, <<>>),
     category_name |-> CategoryName(FindText(offer.categoryId, <<>>), cats)]

\* ------------------------------------------------------------------------
\* _do_search
\* ------------------------------------------------------------------------
\* The arguments are [q, category_id, min_price, max_price, users, limit].
\* An Optional[float] is [given, val]: NoNum is None.

NoNum == [given |-> FALSE, val |-> 0]

Num(x) == [given |-> TRUE, val |-> x]

\* Line 115: q_words = [w.lower() for w in q.split()] if q else []
QWords(q) ==
    IF Truthy(q)
    THEN LET ws == Split(q) IN [i \in 1..Len(ws) |-> Lower(ws[i])]
    ELSE <<>>

\* Lines 119-130: TRUE when no filter drops the product.
PassesFilters(p, a) ==
    /\ ~(Truthy(a.category_id) /\ p.category_id # a.category_id)
    /\ ~(a.min_price.given /\ p.price < a.min_price.val)
    /\ ~(a.max_price.given /\ p.price > a.max_price.val)
    /\ ~(Truthy(a.users) /\ DictGet(p.params, UsersKey, <<>>) # a.users)

\* Line 137: p.get("category_name", "").lower() raises AttributeError when
\* the stored category name is None.
ScoringRaises(p) == p.category_name = None

\* `if` in place of `elif`: every tier that has the word counts.
WordPoints_everyTier(word, p) ==
    LET name_lower == Lower(p.name)
        brand == Lower(DictGet(p.params, BrandKey, <<>>))
        category == Lower(IF p.category_name = Absent THEN <<>> ELSE p.category_name)
        all_params == Lower(Join(Values(p.params)))
    IN  (IF Contains(word, name_lower) THEN 10 ELSE 0)
        + (IF Contains(word, brand) THEN 8 ELSE 0)
        + (IF Contains(word, category) THEN 5 ELSE 0)
        + (IF Contains(word, all_params) THEN 3 ELSE 0)
        + (IF Contains(word, Lower(p.description)) THEN 1 ELSE 0)

\* Lines 141-150: the points of one word, the first branch that matches.
WordPoints(word, p) ==
    LET name_lower == Lower(p.name)
        brand == Lower(DictGet(p.params, BrandKey, <<>>))
        category == Lower(IF p.category_name = Absent THEN <<>> ELSE p.category_name)
        all_params == Lower(Join(Values(p.params)))
    IN  IF Contains(word, name_lower) THEN 10
        ELSE IF Contains(word, brand) THEN 8
        ELSE IF Contains(word, category) THEN 5
        ELSE IF Contains(word, all_params) THEN 3
        ELSE IF Contains(word, Lower(p.description)) THEN 1
        ELSE 0

\* Lines 140-150: the loop over the query's words.
RECURSIVE WordScore(_, _)
WordScore(q_words, p) ==
    IF q_words = <<>> THEN 0
    ELSE WordPoints(Head(q_words), p) + WordScore(Tail(q_words), p)

\* Lines 156-157: the bonus for the whole query in the name.
Bonus(q, p) == IF Contains(Lower(q), Lower(p.name)) THEN 20 ELSE 0

\* Lines 117-161: the loop over the products; raised is TRUE when scoring a
\* product raised, and scored is then the list built up to that product.
RECURSIVE ScoreLoop(_, _, _)
ScoreLoop(products, a, scored_results) ==
    IF products = <<>> THEN [raised |-> FALSE, scored |-> scored_results]
    ELSE LET p == Head(products)
             q_words == QWords(a.q)
         IN  IF ~PassesFilters(p, a)
             THEN ScoreLoop(Tail(products), a, scored_results)
             ELSE IF q_words # <<>>
             THEN IF ScoringRaises(p)
                  THEN [raised |-> TRUE, scored |-> scored_results]
                  ELSE LET score == WordScore(q_words, p) IN
                       IF score = 0
                       THEN ScoreLoop(Tail(products), a, scored_results)
                       ELSE ScoreLoop(Tail(products), a,
                                Append(scored_results,
                                       [score |-> score + Bonus(a.q, p), p |-> p]))
             ELSE ScoreLoop(Tail(products), a,
                            Append(scored_results, [score |-> 0, p |-> p]))

\* Line 163: the sort key (-score, price), compared as tuples.
KeyLess(x, y) ==
    \/ -x.score < -y.score
    \/ (x.score = y.score /\ x.p.price < y.p.price)

\* list.sort is stable: an item goes after every item whose key is not
\* greater than its own.
RECURSIVE InsertSorted(_, _)
InsertSorted(sorted, x) ==
    IF sorted = <<>> THEN <<x>>
    ELSE IF KeyLess(x, Head(sorted)) THEN <<x>> \o sorted
    ELSE <<Head(sorted)>> \o InsertSorted(Tail(sorted), x)

RECURSIVE SortScored(_, _)
SortScored(items, sorted) ==
    IF items = <<>> THEN sorted
    ELSE SortScored(Tail(items), InsertSorted(sorted, Head(items)))

\* Line 164: the slice [:limit]; a negative limit counts from the end.
SliceTo(items, limit) ==
    IF limit >= 0
    THEN SubSeq(items, 1, IF limit < Len(items) THEN limit ELSE Len(items))
    ELSE SubSeq(items, 1, IF Len(items) + limit > 0 THEN Len(items) + limit ELSE 0)

\* Lines 163-165: sort, truncate and build the result record.
SearchResult(scored_results, a) ==
    LET top == SliceTo(SortScored(scored_results, <<>>), a.limit)
        results == [i \in 1..Len(top) |-> top[i].p]
    IN  [results |-> results, total_found |-> Len(results), query |-> a.q]

\* ------------------------------------------------------------------------
\* State
\* ------------------------------------------------------------------------

VARIABLES
    CACHE,        \* the global cache: [categories, products, last_updated]
    mode,         \* "cooperative": handlers run between awaits on one event
                  \* loop; "threads": handlers run on parallel threads
    clock,        \* the event loop's monotonic clock
    rpc,          \* position of fetch_and_parse_xml
    response,     \* the document the GET returned (an index of Docs), 0 before
    categories,   \* fetch_and_parse_xml's local categories
    products,     \* fetch_and_parse_xml's local products
    idx,          \* position of the running loop in its findall list
    rerr,         \* the exception the except clause caught, "none" if none
    entry,        \* CACHE when the running (or last) refresh was called
    src,          \* the document each CACHE field was published from
    rd            \* the reader: the handler it runs (op) and where (pc), its
                  \* arguments (a, product_id), the CACHE fields it has read
                  \* (view), _do_search's scored_results (scored) and how it
                  \* ended (status, result)

vars == <<CACHE, mode, clock, rpc, response, categories, products, idx, rerr,
          entry, src, rd>>

refresher == <<rpc, response, categories, products, idx, rerr, entry>>

\* The clock values the model distinguishes.
MaxClock == 2

\* Lines 27-31: the cache before the first refresh.
EmptyCache == [categories |-> <<>>, products |-> <<>>, last_updated |-> NoNum]

NoArgs ==
    [q |-> None, category_id |-> None, min_price |-> NoNum, max_price |-> NoNum,
     users |-> None, limit |-> 10]

\* What a handler has read of CACHE: the fields, their values, and the
\* documents those values were published from.
NoView ==
    [fields |-> {}, categories |-> <<>>, products |-> <<>>,
     from |-> [categories |-> 0, products |-> 0, last_updated |-> 0]]

IdleReader ==
    [pc |-> "idle", op |-> "none", a |-> NoArgs, product_id |-> None,
     view |-> NoView, scored |-> <<>>, status |-> "none", result |-> <<>>]

InitRefresher ==
    /\ rpc = "idle"
    /\ response = 0
    /\ categories = <<>>
    /\ products = <<>>
    /\ idx = 0
    /\ rerr = "none"
    /\ entry = EmptyCache

Init ==
    /\ CACHE = EmptyCache
    /\ mode \in {"cooperative", "threads"}
    /\ clock = 0
    /\ InitRefresher
    /\ src = [categories |-> 0, products |-> 0, last_updated |-> 0]
    /\ rd = IdleReader

\* On one event loop a handler runs without interruption from one await to
\* the next: fetch_and_parse_xml awaits only the GET (line 49), the readers
\* never await.
ReaderMidHandler == rd.pc \in {"scan", "loop", "sort"}

RefreshMayStep == mode = "threads" \/ ~ReaderMidHandler

ReaderMayStep == mode = "threads" \/ rpc \in {"idle", "get"}

\* ------------------------------------------------------------------------
\* fetch_and_parse_xml
\* ------------------------------------------------------------------------

\* Lines 45-49: the call, up to the await of the GET.
RefreshCall ==
    /\ rpc = "idle"
    /\ RefreshMayStep
    /\ rpc' = "get"
    /\ entry' = CACHE
    /\ rerr' = "none"
    /\ response' = 0
    /\ UNCHANGED <<CACHE, mode, clock, categories, products, idx, src, rd>>

\* Lines 49-50: the GET fails (no connection, timeout) or raise_for_status
\* raises on a non-2xx answer.
FetchFail ==
    /\ rpc = "get"
    /\ RefreshMayStep
    /\ \E e \in {"ConnectError", "ReadTimeout", "HTTPStatusError"} : rerr' = e
    /\ rpc' = "except"
    /\ UNCHANGED <<CACHE, mode, clock, response, categories, products, idx,
                   entry, src, rd>>

\* Lines 49-50: the GET returns a 2xx answer with some document.
FetchOk ==
    /\ rpc = "get"
    /\ RefreshMayStep
    /\ \E d \in DocIds : response' = d
    /\ rpc' = "parse"
    /\ UNCHANGED <<CACHE, mode, clock, categories, products, idx, rerr,
                   entry, src, rd>>

\* Line 54: categories = {}
NewCategories == <<>>

\* Lines 52-54: ET.fromstring raises ParseError on a malformed document.
Parse ==
    /\ rpc = "parse"
    /\ RefreshMayStep
    /\ IF Docs[response].wellformed
       THEN /\ rpc' = "categories"
            /\ categories' = NewCategories
            /\ idx' = 1
            /\ UNCHANGED rerr
       ELSE /\ rpc' = "except"
            /\ rerr' = "ParseError"
            /\ UNCHANGED <<categories, idx>>
    /\ UNCHANGED <<CACHE, mode, clock, response, products, entry, src, rd>>

\* A refresh that appends to the published list instead of a new one.
NewProducts_reuse(cache) == cache.products

\* Line 65: products = []
NewProducts(cache) == <<>>

\* Lines 55-65: one iteration of the category loop, or its end.
CategoryStep ==
    /\ rpc = "categories"
    /\ RefreshMayStep
    /\ LET cs == Docs[response].categories IN
       IF idx <= Len(cs)
       THEN /\ categories' = AddCategory(categories, cs[idx])
            /\ idx' = idx + 1
            /\ UNCHANGED <<rpc, products>>
       ELSE /\ rpc' = "offers"
            /\ products' = NewProducts(CACHE)
            /\ idx' = 1
            /\ UNCHANGED categories
    /\ UNCHANGED <<CACHE, mode, clock, response, rerr, entry, src, rd>>

\* What line 92 appends to.
AppendProduct(list, product) == Append(list, product)

\* The offer loop appending to CACHE["products"] itself: the list is
\* visible while it grows.
OfferStep_inPlace ==
    /\ rpc = "offers"
    /\ RefreshMayStep
    /\ LET os == Docs[response].offers IN
       IF idx > Len(os)
       THEN /\ rpc' = "publish_categories"
            /\ UNCHANGED <<products, idx, rerr, CACHE>>
       ELSE IF ~IsAvailable(os[idx])
       THEN /\ idx' = idx + 1
            /\ UNCHANGED <<rpc, products, rerr, CACHE>>
       ELSE IF ~OfferPrice(os[idx]).ok
       THEN /\ rpc' = "except"
            /\ rerr' = "ValueError"
            /\ UNCHANGED <<products, idx, CACHE>>
       ELSE /\ products' = AppendProduct(products, MakeProduct(os[idx], categories))
            /\ CACHE' = [CACHE EXCEPT !.products = products']
            /\ idx' = idx + 1
            /\ UNCHANGED <<rpc, rerr>>
    /\ UNCHANGED <<mode, clock, response, categories, entry, src, rd>>

\* Lines 66-92: one iteration of the offer loop, or its end.
OfferStep ==
    /\ rpc = "offers"
    /\ RefreshMayStep
    /\ LET os == Docs[response].offers IN
       IF idx > Len(os)
       THEN /\ rpc' = "publish_categories"
            /\ UNCHANGED <<products, idx, rerr>>
       ELSE IF ~IsAvailable(os[idx])
       THEN /\ idx' = idx + 1
            /\ UNCHANGED <<rpc, products, rerr>>
       ELSE IF ~OfferPrice(os[idx]).ok
       THEN /\ rpc' = "except"
            /\ rerr' = "ValueError"
            /\ UNCHANGED <<products, idx>>
       ELSE /\ products' = AppendProduct(products, MakeProduct(os[idx], categories))
            /\ idx' = idx + 1
            /\ UNCHANGED <<rpc, rerr>>
    /\ UNCHANGED <<CACHE, mode, clock, response, categories, entry, src, rd>>

\* Line 94: CACHE["categories"] = categories
PublishCategories ==
    /\ rpc = "publish_categories"
    /\ RefreshMayStep
    /\ CACHE' = [CACHE EXCEPT !.categories = categories]
    /\ src' = [src EXCEPT !.categories = response]
    /\ rpc' = "publish_products"
    /\ UNCHANGED <<mode, clock, response, categories, products, idx, rerr,
                   entry, rd>>

\* Line 95: CACHE["products"] = products
PublishProducts ==
    /\ rpc = "publish_products"
    /\ RefreshMayStep
    /\ CACHE' = [CACHE EXCEPT !.products = products]
    /\ src' = [src EXCEPT !.products = response]
    /\ rpc' = "publish_time"
    /\ UNCHANGED <<mode, clock, response, categories, products, idx, rerr,
                   entry, rd>>

\* Line 96: asyncio.get_event_loop().time()
LoopTime == Num(clock)

\* Lines 96-97: CACHE["last_updated"] = loop time, and the normal return.
PublishTime ==
    /\ rpc = "publish_time"
    /\ RefreshMayStep
    /\ CACHE' = [CACHE EXCEPT !.last_updated = LoopTime]
    /\ src' = [src EXCEPT !.last_updated = response]
    /\ rpc' = "idle"
    /\ UNCHANGED <<mode, clock, response, categories, products, idx, rerr,
                   entry, rd>>

\* An except clause that publishes what the refresh had built so far.
AfterExcept_partial(cache, cats, prods) ==
    [cache EXCEPT !.categories = cats, !.products = prods]

\* What the except clause leaves in CACHE: it only prints.
AfterExcept(cache, cats, prods) == cache

\* Lines 99-100: except Exception: print(...), then the normal return.
Except ==
    /\ rpc = "except"
    /\ RefreshMayStep
    /\ CACHE' = AfterExcept(CACHE, categories, products)
    /\ rpc' = "idle"
    /\ UNCHANGED <<mode, clock, response, categories, products, idx, rerr,
                   entry, src, rd>>

\* The event loop's clock advances.
Tick ==
    /\ clock < MaxClock
    /\ clock' = clock + 1
    /\ UNCHANGED <<CACHE, mode, refresher, src, rd>>

\* ------------------------------------------------------------------------
\* The readers
\* ------------------------------------------------------------------------

ReaderAtRest == rd.pc \in {"idle", "done"}

\* Lines 106-109: get_categories reads CACHE["categories"] once.
GetCategories ==
    /\ ReaderAtRest
    /\ ReaderMayStep
    /\ rd' = [IdleReader EXCEPT
                !.pc = "done", !.op = "get_categories",
                !.view = [NoView EXCEPT !.fields = {"categories"},
                                        !.categories = CACHE.categories,
                                        !.from = src],
                !.status = "ok",
                !.result = Values(CACHE.categories)]
    /\ UNCHANGED <<CACHE, mode, clock, refresher, src>>

ProductIds == {<<"1">>, <<"2">>, <<"9">>}

\* Lines 207-209: get_product takes the list CACHE["products"] to iterate.
GetProductCall ==
    /\ ReaderAtRest
    /\ ReaderMayStep
    /\ \E id \in ProductIds :
         rd' = [IdleReader EXCEPT
                  !.pc = "scan", !.op = "get_product", !.product_id = id,
                  !.view = [NoView EXCEPT !.fields = {"products"},
                                          !.products = CACHE.products,
                                          !.from = src]]
    /\ UNCHANGED <<CACHE, mode, clock, refresher, src>>

\* Lines 209-212: the first product with the id, or HTTP 404.
GetProductReturn ==
    /\ rd.pc = "scan"
    /\ ReaderMayStep
    /\ LET ps == rd.view.products
           hits == {i \in 1..Len(ps) : ps[i].id = rd.product_id}
       IN  IF hits = {}
           THEN rd' = [rd EXCEPT !.pc = "done", !.status = "404"]
           ELSE rd' = [rd EXCEPT !.pc = "done", !.status = "ok",
                                 !.result = ps[CHOOSE i \in hits : \A j \in hits : i <= j]]
    /\ UNCHANGED <<CACHE, mode, clock, refresher, src>>

\* Lines 110-117: _do_search is called with the arguments a and takes the
\* list CACHE["products"] to iterate.
SearchCall(a) ==
    /\ ReaderAtRest
    /\ ReaderMayStep
    /\ rd' = [IdleReader EXCEPT
                !.pc = "loop", !.op = "search", !.a = a,
                !.view = [NoView EXCEPT !.fields = {"products"},
                                        !.products = CACHE.products,
                                        !.from = src]]
    /\ UNCHANGED <<CACHE, mode, clock, refresher, src>>

\* Lines 117-161: the loop over the products; an exception leaves the
\* handler.
SearchLoop ==
    /\ rd.pc = "loop"
    /\ ReaderMayStep
    /\ LET r == ScoreLoop(rd.view.products, rd.a, <<>>) IN
       IF r.raised
       THEN rd' = [rd EXCEPT !.pc = "done", !.status = "raised", !.scored = r.scored]
       ELSE rd' = [rd EXCEPT !.pc = "sort", !.scored = r.scored]
    /\ UNCHANGED <<CACHE, mode, clock, refresher, src>>

\* Lines 163-165: sort, truncate, return.
SearchReturn ==
    /\ rd.pc = "sort"
    /\ ReaderMayStep
    /\ rd' = [rd EXCEPT !.pc = "done", !.status = "ok",
                        !.result = SearchResult(rd.scored, rd.a)]
    /\ UNCHANGED <<CACHE, mode, clock, refresher, src>>

\* The searches of the loader's specification: no query and a one-word
\* query, no filter, the default limit.
LoaderArgs == {NoArgs, [NoArgs EXCEPT !.q = <<"a">>]}

SearchDefault == \E a \in LoaderArgs : SearchCall(a)

Next ==
    \/ RefreshCall
    \/ FetchFail
    \/ FetchOk
    \/ Parse
    \/ CategoryStep
    \/ OfferStep
    \/ PublishCategories
    \/ PublishProducts
    \/ PublishTime
    \/ Except
    \/ Tick
    \/ GetCategories
    \/ GetProductCall
    \/ GetProductReturn
    \/ SearchDefault
    \/ SearchLoop
    \/ SearchReturn

Spec == Init /\ [][Next]_vars

\* ------------------------------------------------------------------------
\* The search on every snapshot a refresh can publish
\* ------------------------------------------------------------------------

\* Lines 54-63 as a whole.
RECURSIVE BuildCategories(_, _)
BuildCategories(cs, acc) ==
    IF cs = <<>> THEN acc
    ELSE BuildCategories(Tail(cs), AddCategory(acc, Head(cs)))

\* Lines 65-92 as a whole, for a document whose available offers all have
\* a price that parses.
RECURSIVE BuildProducts(_, _, _)
BuildProducts(os, cats, acc) ==
    IF os = <<>> THEN acc
    ELSE BuildProducts(Tail(os), cats,
             IF IsAvailable(Head(os))
             THEN Append(acc, MakeProduct(Head(os), cats))
             ELSE acc)

\* The documents on which fetch_and_parse_xml reaches line 94.
GoodDocs ==
    {d \in DocIds :
        /\ Docs[d].wellformed
        /\ \A i \in 1..Len(Docs[d].offers) :
             IsAvailable(Docs[d].offers[i]) => OfferPrice(Docs[d].offers[i]).ok}

SnapshotOf(d) ==
    LET cats == BuildCategories(Docs[d].categories, <<>>) IN
    [categories |-> cats,
     products |-> BuildProducts(Docs[d].offers, cats, <<>>),
     last_updated |-> Num(0)]

Queries ==
    {None, <<>>, <<" ">>, <<"a">>, <<"B">>, <<"B", "a">>, <<"t">>, <<"5">>,
     <<"a", " ", "b">>, <<" ", "a">>}

CategoryFilters == {None, <<>>, <<"1">>}

MinPrices == {NoNum, Num(0), Num(10)}

MaxPrices == {NoNum, Num(0), Num(5)}

UsersFilters == {None, <<>>, <<"5">>}

Limits == {-1, 0, 1, 10}

SearchArgs ==
    [q : Queries, category_id : CategoryFilters, min_price : MinPrices,
     max_price : MaxPrices, users : UsersFilters, limit : Limits]

InitSearch ==
    /\ \E d \in GoodDocs \cup {0} :
         /\ CACHE = IF d = 0 THEN EmptyCache ELSE SnapshotOf(d)
         /\ src = [categories |-> d, products |-> d, last_updated |-> d]
    /\ mode = "cooperative"
    /\ clock = 0
    /\ InitRefresher
    /\ rd = IdleReader

\* One call of _do_search per behaviour: its result is a function of the
\* snapshot and the arguments.
SearchAny == rd.pc = "idle" /\ \E a \in SearchArgs : SearchCall(a)

NextSearch ==
    \/ SearchAny
    \/ SearchLoop
    \/ SearchReturn

SpecSearch == InitSearch /\ [][NextSearch]_vars

\* ------------------------------------------------------------------------
\* Properties of the loader (checked under Spec)
\* ------------------------------------------------------------------------

\* The refresh has ended in its except clause, or is in it.
RefreshFailed == rpc = "except" \/ (rpc = "idle" /\ rerr # "none")

\* The positions of fetch_and_parse_xml: it returns to "idle" and has no
\* position in which an exception has left it.
RefreshPositions ==
    {"idle", "get", "parse", "categories", "offers", "publish_categories",
     "publish_products", "publish_time", "except"}

\* C1: a refresh that fails (the GET fails or times out, the status is not
\* 2xx, the document is malformed, an offer cannot be processed) leaves
\* CACHE as it was when the refresh was called, and returns normally.
C1_FailedRefreshKeepsSnapshot ==
    /\ rpc \in RefreshPositions
    /\ RefreshFailed => CACHE = entry

\* C1 witness: a refresh has failed on an offer after it had built a
\* category mapping and a product list that differ from the published ones.
C1_Witness ==
    /\ rpc = "idle"
    /\ rerr = "ValueError"
    /\ src.products # 0
    /\ products # <<>>
    /\ products # CACHE.products
    /\ categories # CACHE.categories

\* The snapshots a refresh can publish, and the empty one of start-up.
CompleteSnapshots == {EmptyCache} \cup {SnapshotOf(d) : d \in GoodDocs}

\* Between refreshes CACHE is the empty cache or the snapshot of the
\* document it was last published from: the initial states of SpecSearch
\* are caches the loader produces.
PublishedIsSnapshot ==
    (rpc \in {"idle", "get"} /\ src.last_updated # 0) =>
        /\ src.categories = src.last_updated
        /\ src.products = src.last_updated
        /\ src.last_updated \in GoodDocs
        /\ CACHE.categories = SnapshotOf(src.last_updated).categories
        /\ CACHE.products = SnapshotOf(src.last_updated).products

\* C2: whatever a reader has read of CACHE is the field of one complete
\* snapshot, the one that was published from the document the field came
\* from: never a partly built list, never products that carry the category
\* names of another snapshot; and what it returns is taken from that.
C2_ReaderSeesOneSnapshot ==
    rd.op # "none" =>
        /\ \E S \in CompleteSnapshots :
             /\ "categories" \in rd.view.fields => rd.view.categories = S.categories
             /\ "products" \in rd.view.fields => rd.view.products = S.products
        /\ "categories" \in rd.view.fields /\ rd.view.from.categories # 0 =>
             rd.view.categories = SnapshotOf(rd.view.from.categories).categories
        /\ "products" \in rd.view.fields /\ rd.view.from.products # 0 =>
             rd.view.products = SnapshotOf(rd.view.from.products).products
        /\ rd.op = "get_categories" => rd.result = Values(rd.view.categories)
        /\ rd.op = "get_product" /\ rd.status = "ok" =>
             \E i \in 1..Len(rd.view.products) : rd.result = rd.view.products[i]
        /\ rd.op = "search" /\ rd.status = "ok" =>
             \A i \in 1..Len(rd.result.results) :
                \E j \in 1..Len(rd.view.products) :
                    rd.result.results[i] = rd.view.products[j]

\* C2 witness: on parallel threads a search is in its loop, on the list it
\* took from CACHE, while the refresh has published the new categories and
\* not yet the new products.
C2_Witness ==
    /\ mode = "threads"
    /\ rd.pc = "loop"
    /\ rd.view.products # <<>>
    /\ rpc = "publish_products"
    /\ src.products # 0
    /\ src.categories # src.products

\* The product p is the one built from the offer o.
Corresponds(p, o) == p.id = o.id /\ p.url = FindText(o.url, <<>>)

\* The offers of document d (none for 0, the time before the first refresh).
OffersOf(d) == IF d = 0 THEN <<>> ELSE Docs[d].offers

\* No product of the list ps comes from an offer of document d whose
\* availability flag is absent or is not exactly "true".
OnlyAvailable(ps, d) ==
    \A k \in 1..Len(OffersOf(d)) :
        OffersOf(d)[k].available # TxtTrue =>
            \A i \in 1..Len(ps) : ~Corresponds(ps[i], OffersOf(d)[k])

\* C3: no product of CACHE comes from an offer whose availability flag is
\* absent or other than "true", and no search returns one.
C3_UnavailableNeverPublished ==
    /\ OnlyAvailable(CACHE.products, src.products)
    /\ rd.op = "search" /\ rd.status = "ok" =>
         OnlyAvailable(rd.result.results, rd.view.from.products)

\* C3 witness: the snapshot comes from document 2, whose first offer has no
\* flag and whose third has "True", and the search with no query and no
\* filter has returned the two products of the other offers.
C3_Witness ==
    /\ src.products = 2
    /\ rd.op = "search"
    /\ rd.status = "ok"
    /\ rd.a = NoArgs
    /\ rd.view.from.products = 2
    /\ rd.result.total_found = 2
    /\ entry.products # <<>>

\* C4 (as claimed): an offer without an id never becomes a product.
C4_NoIdNeverPublished ==
    \A k \in 1..Len(OffersOf(src.products)) :
        OffersOf(src.products)[k].id = None =>
            \A i \in 1..Len(CACHE.products) :
                ~Corresponds(CACHE.products[i], OffersOf(src.products)[k])

\* The price of the offer is missing or is not a number.
BadPrice(o) == o.price = None \/ ~ParseFloat(o.price).ok

\* C5 (as claimed): when a well-formed document has been fetched and the
\* refresh has ended, it has succeeded, and every available offer whose
\* price is missing or not a number is in CACHE with price 0.
C5_BadPriceIsZero ==
    (rpc = "idle" /\ response # 0 /\ Docs[response].wellformed) =>
        /\ rerr = "none"
        /\ \A k \in 1..Len(Docs[response].offers) :
             LET o == Docs[response].offers[k] IN
             (o.available = TxtTrue /\ BadPrice(o)) =>
                 \E i \in 1..Len(CACHE.products) :
                     /\ Corresponds(CACHE.products[i], o)
                     /\ CACHE.products[i].price = 0

\* A step that publishes a field of CACHE from the document that the whole
\* of CACHE was last published from.
RepublishStep ==
    /\ rpc \in {"publish_categories", "publish_products", "publish_time"}
    /\ rpc' # rpc
    /\ src.categories = response
    /\ src.products = response
    /\ src.last_updated = response

\* C9 (as claimed): a second successful refresh over the same document
\* leaves categories, products and last_updated as the first left them.
C9_RepeatedRefreshIdentical == [][RepublishStep => CACHE' = CACHE]_vars

\* C9 (amended): a second successful refresh over the same document leaves
\* categories and products as the first left them; last_updated becomes the
\* loop time of the second refresh, which is not earlier than the first's.
C9_RepeatedRefreshSameContent ==
    [][RepublishStep =>
         /\ CACHE'.categories = CACHE.categories
         /\ CACHE'.products = CACHE.products
         /\ CACHE'.last_updated.given
         /\ CACHE.last_updated.given
         /\ CACHE'.last_updated.val >= CACHE.last_updated.val]_vars

\* C9 witness: a refresh has succeeded over the document of the snapshot
\* that was there when it was called; the products are the same and the
\* timestamp is later.
C9_Witness ==
    /\ rpc = "idle"
    /\ rerr = "none"
    /\ response # 0
    /\ entry.products # <<>>
    /\ entry.categories = CACHE.categories
    /\ entry.products = CACHE.products
    /\ entry.last_updated.given
    /\ CACHE.last_updated.val > entry.last_updated.val

\* ------------------------------------------------------------------------
\* Properties of the search (checked under SpecSearch)
\* ------------------------------------------------------------------------

\* The query's lowercase whitespace-separated words.
ClaimWords(q) == IF q = None THEN <<>> ELSE Split(Lower(q))

TextOrEmpty(t) == IF IsStr(t) THEN t ELSE <<>>

\* The five places a word is looked for, in priority order, and their
\* points.
ClaimTiers(p) ==
    << Lower(p.name),
       Lower(DictGet(p.params, BrandKey, <<>>)),
       Lower(TextOrEmpty(p.category_name)),
       Lower(Join(Values(p.params))),
       Lower(p.description) >>

TierPoints == <<10, 8, 5, 3, 1>>

\* The points of the first tier that has the word, 0 when none has it.
ClaimWordPoints(word, p) ==
    LET hits == {t \in 1..5 : Contains(word, ClaimTiers(p)[t])} IN
    IF hits = {} THEN 0
    ELSE TierPoints[CHOOSE t \in hits : \A u \in hits : t <= u]

RECURSIVE ClaimSum(_, _, _)
ClaimSum(words, p, n) ==
    IF n = 0 THEN 0
    ELSE ClaimWordPoints(words[n], p) + ClaimSum(words, p, n - 1)

\* The per-word score, without the bonus.
ClaimWordScore(q, p) == ClaimSum(ClaimWords(q), p, Len(ClaimWords(q)))

\* The score: the per-word score plus 20 when the whole lowercased query
\* is in the lowercased name.
ClaimScore(q, p) ==
    ClaimWordScore(q, p) + IF Contains(Lower(q), Lower(p.name)) THEN 20 ELSE 0

\* The product satisfies every filter that was supplied (that is not None).
ClaimEligible(p, a) ==
    /\ a.category_id # None => p.category_id = a.category_id
    /\ a.min_price.given => a.min_price.val <= p.price
    /\ a.max_price.given => p.price <= a.max_price.val
    /\ a.users # None =>
         HasKey(p.params, UsersKey) /\ Lookup(p.params, UsersKey) = a.users

ClaimCandidate(p, a) ==
    /\ ClaimEligible(p, a)
    /\ ClaimWords(a.q) # <<>> => ClaimWordScore(a.q, p) > 0

\* The products of the scored list, in its order.
ScoredProducts(scored) == [i \in 1..Len(scored) |-> scored[i].p]

\* C6 (as claimed): before truncation the candidates are exactly the
\* products of the snapshot that satisfy every supplied filter, an empty
\* string and a bound of 0 included, and that score above 0 when the query
\* has words; without words every candidate has score 0.
C6_CandidatesAreFiltered ==
    rd.pc = "sort" =>
        LET Keep(p) == ClaimCandidate(p, rd.a) IN
        /\ ScoredProducts(rd.scored) = SelectSeq(rd.view.products, Keep)
        /\ ClaimWords(rd.a.q) = <<>> =>
             \A i \in 1..Len(rd.scored) : rd.scored[i].score = 0

\* C7: for a query with words, the score of every candidate is the sum
\* over the words of the points of the first tier that has the word, plus
\* 20 when the whole lowercased query is in the lowercased name.
C7_ScoreIsFirstTierSum ==
    (rd.pc = "sort" /\ ClaimWords(rd.a.q) # <<>>) =>
        \A i \in 1..Len(rd.scored) :
            rd.scored[i].score = ClaimScore(rd.a.q, rd.scored[i].p)

\* C7 witness: a two-word query has two candidates, one with both words in
\* its name (10 + 10) and one with a word in its name and the other only in
\* its description (10 + 1).
C7_Witness ==
    /\ rd.pc = "sort"
    /\ Len(ClaimWords(rd.a.q)) = 2
    /\ \E i, j \in 1..Len(rd.scored) :
         rd.scored[i].score = 20 /\ rd.scored[j].score = 11

Max(x, y) == IF x >= y THEN x ELSE y

Min(x, y) == IF x <= y THEN x ELSE y

\* x ranks strictly before y: a higher score, or the same score and a
\* lower price.
Outranks(x, y) ==
    x.score > y.score \/ (x.score = y.score /\ x.p.price < y.p.price)

\* C8 (as claimed): for every integer limit the results are the first
\* min(max(limit, 0), number of candidates) candidates in the order score
\* descending, price ascending: never more than limit, none omitted that
\* outranks a returned one; total_found is the number returned.
C8_ResultsArePrefix ==
    (rd.pc = "done" /\ rd.op = "search" /\ rd.status = "ok") =>
        LET res == rd.result.results
            n == Len(rd.scored)
            k == Min(Max(rd.a.limit, 0), n)
        IN  /\ Len(res) = k
            /\ Len(res) <= Max(rd.a.limit, 0)
            /\ rd.result.total_found = Len(res)
            /\ \E f \in [1..Len(res) -> 1..n] :
                 /\ \A i, j \in 1..Len(res) : i # j => f[i] # f[j]
                 /\ \A i \in 1..Len(res) : res[i] = rd.scored[f[i]].p
                 /\ \A i, j \in 1..Len(res) :
                      i < j => ~Outranks(rd.scored[f[j]], rd.scored[f[i]])
                 /\ \A c \in 1..n :
                      (\A i \in 1..Len(res) : f[i] # c) =>
                          \A i \in 1..Len(res) :
                              ~Outranks(rd.scored[c], rd.scored[f[i]])

\* C10 (as claimed): on every snapshot a refresh can publish and for every
\* query and filter, the search returns a record with results, total_found
\* and query; scoring a product never raises.
C10_SearchNeverRaises ==
    (rd.pc = "done" /\ rd.op = "search") =>
        /\ rd.status = "ok"
        /\ DOMAIN rd.result = {"results", "total_found", "query"}

====
